---- MODULE Spec2Model ----
(***************************************************************************)
(* Model of error_script.py: a batch job that fetches the advertisers      *)
(* whose sources failed to sync, diffs them against the snapshot file of   *)
(* the previous run, e-mails the new failures and rewrites the snapshot.   *)
(*                                                                         *)
(* Python values are encoded as follows.  None (and a missing JSON field)  *)
(* is the empty tuple, a present value v is the one-element tuple <<v>>.   *)
(* A dict is a function whose domain is its key set; the dict built by     *)
(* fetch_advertisers, whose iteration order main() depends on, is a        *)
(* sequence of entries in insertion order.  The snapshot file is a record  *)
(* [exists, content]: content is the JSON object, keyed by strings.        *)
(***************************************************************************)
EXTENDS Integers, Sequences, FiniteSets, TLC

\* ------------------------------------------------------------------------
\* The API responses the runs are checked on
\* ------------------------------------------------------------------------
MaxTs == 2       \* sync_failed_at takes the timestamps 1..MaxTs, or null
MaxRecords == 2  \* source records in one API response

None == <<>>
Some(v) == <<v>>

\* adv.get("id"): an advertiser id, or None for a record without "id"
AdvIds == {None, Some(1)}
\* src["id"]
SrcIds == {1, 2}
Timestamps == {None} \cup {Some(t) : t \in 1..MaxTs}

\* one element of adv["sources"] in the API response (its "id" is the key)
RawSource == [name : {Some("feed")}, source_type : {Some("xml")},
              fetching_enabled : BOOLEAN, sync_failed_at : Timestamps]

\* one element of the response's "data" array, with at most n sources
RawAdvertisers(ids, n) ==
    [id : ids, name : {Some("Acme")},
     sources : UNION {[S -> RawSource] :
                        S \in {T \in SUBSET SrcIds : Cardinality(T) <= n}}]

\* The "data" arrays with at most n source records in all.  The API lists
\* every customer once: the ids of a response are distinct.
RECURSIVE ResponsesOver(_, _)
ResponsesOver(ids, n) ==
    {<<>>} \cup
    UNION {{<<adv>> \o rest :
              rest \in ResponsesOver(ids \ {adv.id},
                                     n - Cardinality(DOMAIN adv.sources))} :
           adv \in RawAdvertisers(ids, n)}

Responses == ResponsesOver(AdvIds, MaxRecords)

\* ------------------------------------------------------------------------
\* Pure functions of the program
\* ------------------------------------------------------------------------
\* dict.get(key, default)
Get(field, default) == IF field = None THEN default ELSE field[1]

\* str(x) of an int or of None
PyStr(x) == IF x = None THEN "None" ELSE ToString(x[1])

\* the key json.dump writes for a dict key that is an int or None
JsonKey(x) == IF x = None THEN "null" ELSE ToString(x[1])

\* a filter that forgets fetching_enabled
FlaggedIgnoringEnabled(src) == src.sync_failed_at # None

\* the filter of the dict comprehension in fetch_advertisers
Flagged(src) == src.fetching_enabled /\ src.sync_failed_at # None

\* flagged_sources of one advertiser: keyed by str(src["id"])
FlaggedSources(adv) ==
    LET ids == {s \in DOMAIN adv.sources : Flagged(adv.sources[s])}
        idOf(k) == CHOOSE s \in ids : ToString(s) = k
    IN [k \in {ToString(s) : s \in ids} |->
          [name |-> Get(adv.sources[idOf(k)].name, "Unknown source"),
           source_type |-> Get(adv.sources[idOf(k)].source_type, "Unknown type"),
           sync_failed_at |-> adv.sources[idOf(k)].sync_failed_at]]

\* the dict fetch_advertisers returns, as its entries in insertion order
RECURSIVE FetchAdvertisers(_)
FetchAdvertisers(data) ==
    IF data = <<>> THEN <<>>
    ELSE LET adv == Head(data)
             flagged_sources == FlaggedSources(adv)
         IN IF DOMAIN flagged_sources # {}
            THEN <<[id |-> adv.id,
                    name |-> Get(adv.name, "Unknown Advertiser"),
                    sources |-> flagged_sources]>> \o FetchAdvertisers(Tail(data))
            ELSE FetchAdvertisers(Tail(data))

\* json.dump of the fetched dict: the keys become JSON strings; of two
\* entries with the same JSON key the parser keeps the later one
JsonDump(snapshot) ==
    LET last(k) == CHOOSE i \in DOMAIN snapshot :
                      /\ JsonKey(snapshot[i].id) = k
                      /\ \A j \in DOMAIN snapshot :
                            JsonKey(snapshot[j].id) = k => j <= i
    IN [k \in {JsonKey(snapshot[i].id) : i \in DOMAIN snapshot} |->
          [name |-> snapshot[last(k)].name, sources |-> snapshot[last(k)].sources]]

\* what save_snapshot leaves on disk
SaveSnapshot(snapshot) == [exists |-> TRUE, content |-> JsonDump(snapshot)]

\* load_snapshot: the parsed file, {} when there is no file
LoadSnapshot(f) == IF f.exists THEN f.content ELSE <<>>

\* a first-run test that never holds (previous_data is None)
FirstRunNever(previous) == FALSE

\* first_run = len(previous_data) == 0
FirstRun(previous) == DOMAIN previous = {}

\* previous_data.get(str(adv_id), {}).get("sources", {})
PrevSources(adv_id, previous) ==
    IF PyStr(adv_id) \in DOMAIN previous THEN previous[PyStr(adv_id)].sources ELSE <<>>

\* a test that misses the sources absent from the previous snapshot
NeedsNotificationIfChanged(src_id, src_info, prev_sources) ==
    /\ src_id \in DOMAIN prev_sources
    /\ src_info.sync_failed_at # prev_sources[src_id].sync_failed_at

\* a test that misses the re-occurred failures
NeedsNotificationIfAbsent(src_id, src_info, prev_sources) ==
    src_id \notin DOMAIN prev_sources

\* the test of the inner loop of main(): is this source new or re-occurred
NeedsNotification(src_id, src_info, prev_sources) ==
    \/ src_id \notin DOMAIN prev_sources
    \/ src_info.sync_failed_at # prev_sources[src_id].sync_failed_at

\* new_sources of one advertiser
NewSources(adv_id, adv_info, previous) ==
    LET prev_sources == PrevSources(adv_id, previous)
        keys == {k \in DOMAIN adv_info.sources :
                    NeedsNotification(k, adv_info.sources[k], prev_sources)}
    IN [k \in keys |-> adv_info.sources[k]]

\* format_email_body: the lines of the body, the sources in API order
RECURSIVE SourceLines(_, _)
SourceLines(sources, n) ==
    IF \A s \in SrcIds : s < n THEN <<>>
    ELSE IF ToString(n) \in DOMAIN sources
         THEN << <<"- Source:", sources[ToString(n)].name, sources[ToString(n)].source_type>>,
                 <<"  Disconnected at:", sources[ToString(n)].sync_failed_at>>,
                 <<"">> >> \o SourceLines(sources, n + 1)
         ELSE SourceLines(sources, n + 1)

FormatEmailBody(adv_name, sources) ==
    << <<"Advertiser:", adv_name>>, <<"">> >> \o SourceLines(sources, 1)

\* the message main() hands to send_email for one advertiser
Email(adv_id, adv_info, new_sources) ==
    [adv_id |-> adv_id,
     subject |-> <<"Source error for", adv_info.name>>,
     body |-> FormatEmailBody(adv_info.name, new_sources),
     sources |-> new_sources]

\* the <<advertiser id, source id, sync_failed_at>> of a fetched dict
FlaggedTriples(fetched) ==
    UNION {{<<fetched[i].id, k, fetched[i].sources[k].sync_failed_at>> :
               k \in DOMAIN fetched[i].sources} : i \in DOMAIN fetched}

\* ------------------------------------------------------------------------
\* State
\* ------------------------------------------------------------------------
VARIABLES
    file,           \* previous_errors.json
    pc,             \* position of the run in main()
    data,           \* "data" of the API response of this run
    current_data,   \* fetch_advertisers() of this run
    previous_data,  \* load_snapshot() of this run
    idx,            \* position of the for loop over current_data
    sent,           \* e-mails delivered by this run, in order
    attempted,      \* advertisers send_email was called for in this run
    writes,         \* save_snapshot calls of this run
    failedAt,       \* the call whose exception ended the run
    fileAtStart,    \* history: the file when this run started
    prevRun         \* history: what the run just before fetched, if it completed

vars == <<file, pc, data, current_data, previous_data, idx, sent, attempted,
          writes, failedAt, fileAtStart, prevRun>>

NoFile == [exists |-> FALSE, content |-> <<>>]

Init ==
    /\ file = NoFile
    /\ pc = "start"
    /\ data = <<>>
    /\ current_data = <<>>
    /\ previous_data = <<>>
    /\ idx = 1
    /\ sent = <<>>
    /\ attempted = <<>>
    /\ writes = 0
    /\ failedAt = "none"
    /\ fileAtStart = NoFile
    /\ prevRun = [completed |-> FALSE, fetched |-> {}]

\* ------------------------------------------------------------------------
\* Steps of main()
\* ------------------------------------------------------------------------
\* fetch_advertisers() returns
FetchOk ==
    /\ pc = "start"
    /\ \E d \in Responses :
          /\ data' = d
          /\ current_data' = FetchAdvertisers(d)
    /\ pc' = "fetched"
    /\ UNCHANGED <<file, previous_data, idx, sent, attempted, writes, failedAt,
                   fileAtStart, prevRun>>

\* a fetch whose exception is swallowed: the run goes on with no advertisers
FetchFailSwallowed ==
    /\ pc = "start"
    /\ pc' = "fetched"
    /\ failedAt' = "fetch"
    /\ UNCHANGED <<file, data, current_data, previous_data, idx, sent, attempted,
                   writes, fileAtStart, prevRun>>

\* requests.get or raise_for_status raises: main() ends with the exception
FetchFail ==
    /\ pc = "start"
    /\ pc' = "failed"
    /\ failedAt' = "fetch"
    /\ UNCHANGED <<file, data, current_data, previous_data, idx, sent, attempted,
                   writes, fileAtStart, prevRun>>

\* previous_data = load_snapshot()
Load ==
    /\ pc = "fetched"
    /\ previous_data' = LoadSnapshot(file)
    /\ pc' = "loaded"
    /\ UNCHANGED <<file, data, current_data, idx, sent, attempted, writes, failedAt,
                   fileAtStart, prevRun>>

\* if first_run: save_snapshot(current_data); return
Bootstrap ==
    /\ pc = "loaded"
    /\ FirstRun(previous_data)
    /\ file' = SaveSnapshot(current_data)
    /\ writes' = writes + 1
    /\ pc' = "done"
    /\ UNCHANGED <<data, current_data, previous_data, idx, sent, attempted, failedAt,
                   fileAtStart, prevRun>>

\* not the first run: main() is in the for loop or just behind it
InLoop == pc = "loaded" /\ ~FirstRun(previous_data)

\* one iteration whose new_sources is empty
Skip ==
    /\ InLoop
    /\ idx <= Len(current_data)
    /\ LET adv == current_data[idx]
       IN DOMAIN NewSources(adv.id, adv, previous_data) = {}
    /\ idx' = idx + 1
    /\ UNCHANGED <<file, pc, data, current_data, previous_data, sent, attempted,
                   writes, failedAt, fileAtStart, prevRun>>

\* one iteration whose new_sources is not empty, send_email returns
SendOk ==
    /\ InLoop
    /\ idx <= Len(current_data)
    /\ LET adv == current_data[idx]
           new_sources == NewSources(adv.id, adv, previous_data)
       IN /\ DOMAIN new_sources # {}
          /\ sent' = Append(sent, Email(adv.id, adv, new_sources))
          /\ attempted' = Append(attempted, adv.id)
    /\ idx' = idx + 1
    /\ UNCHANGED <<file, pc, data, current_data, previous_data, writes, failedAt,
                   fileAtStart, prevRun>>

\* a send whose exception is caught: the loop goes on with the next advertiser
SendFailContinue ==
    /\ InLoop
    /\ idx <= Len(current_data)
    /\ LET adv == current_data[idx]
       IN /\ DOMAIN NewSources(adv.id, adv, previous_data) # {}
          /\ attempted' = Append(attempted, adv.id)
    /\ idx' = idx + 1
    /\ failedAt' = "smtp"
    /\ UNCHANGED <<file, pc, data, current_data, previous_data, sent, writes,
                   fileAtStart, prevRun>>

\* one iteration whose new_sources is not empty, send_email raises:
\* main() does not catch it
SendFail ==
    /\ InLoop
    /\ idx <= Len(current_data)
    /\ LET adv == current_data[idx]
       IN /\ DOMAIN NewSources(adv.id, adv, previous_data) # {}
          /\ attempted' = Append(attempted, adv.id)
    /\ pc' = "failed"
    /\ failedAt' = "smtp"
    /\ UNCHANGED <<file, data, current_data, previous_data, idx, sent, writes,
                   fileAtStart, prevRun>>

\* a save that updates the previous snapshot instead of replacing it
SaveKeepingOld ==
    /\ InLoop
    /\ idx > Len(current_data)
    /\ file' = [exists |-> TRUE,
                content |-> [k \in DOMAIN previous_data \cup DOMAIN JsonDump(current_data) |->
                               IF k \in DOMAIN JsonDump(current_data)
                               THEN JsonDump(current_data)[k] ELSE previous_data[k]]]
    /\ writes' = writes + 1
    /\ pc' = "done"
    /\ UNCHANGED <<data, current_data, previous_data, idx, sent, attempted, failedAt,
                   fileAtStart, prevRun>>

\* a save that is skipped when the run sent no e-mail
SaveIfSent ==
    /\ InLoop
    /\ idx > Len(current_data)
    /\ file' = IF sent = <<>> THEN file ELSE SaveSnapshot(current_data)
    /\ writes' = IF sent = <<>> THEN writes ELSE writes + 1
    /\ pc' = "done"
    /\ UNCHANGED <<data, current_data, previous_data, idx, sent, attempted, failedAt,
                   fileAtStart, prevRun>>

\* after the loop: save_snapshot(current_data)
Save ==
    /\ InLoop
    /\ idx > Len(current_data)
    /\ file' = SaveSnapshot(current_data)
    /\ writes' = writes + 1
    /\ pc' = "done"
    /\ UNCHANGED <<data, current_data, previous_data, idx, sent, attempted, failedAt,
                   fileAtStart, prevRun>>

\* the process has ended; the scheduler starts the script again
NextRun ==
    /\ pc \in {"done", "failed"}
    /\ prevRun' = IF pc = "done"
                  THEN [completed |-> TRUE, fetched |-> FlaggedTriples(current_data)]
                  ELSE [completed |-> FALSE, fetched |-> {}]
    /\ fileAtStart' = file
    /\ pc' = "start"
    /\ data' = <<>>
    /\ current_data' = <<>>
    /\ previous_data' = <<>>
    /\ idx' = 1
    /\ sent' = <<>>
    /\ attempted' = <<>>
    /\ writes' = 0
    /\ failedAt' = "none"
    /\ UNCHANGED file

Next ==
    \/ FetchOk
    \/ FetchFail
    \/ Load
    \/ Bootstrap
    \/ Skip
    \/ SendOk
    \/ SendFail
    \/ Save
    \/ NextRun

Spec == Init /\ [][Next]_vars

\* ------------------------------------------------------------------------
\* Vocabulary of the properties
\* ------------------------------------------------------------------------
\* the snapshot that was on disk when this run started ({} without a file)
PreviousSnapshot == fileAtStart.content

\* the sources a snapshot records for the advertiser with this id
SnapshotEntry(content, id) ==
    IF JsonKey(id) \in DOMAIN content THEN content[JsonKey(id)].sources ELSE <<>>

\* the run found no previous state: no file, or a mapping with zero entries
BootstrapRun == DOMAIN PreviousSnapshot = {}

\* source k of advertiser id is in an e-mail this run delivered for that advertiser
Included(id, k) ==
    \E i \in DOMAIN sent :
        /\ sent[i].adv_id = id
        /\ k \in DOMAIN sent[i].sources
        /\ \E n \in DOMAIN sent[i].body :
              /\ sent[i].body[n][1] = "  Disconnected at:"
              /\ sent[i].body[n][2] = sent[i].sources[k].sync_failed_at

\* source k of the advertiser stored under this JSON key is in some e-mail of this run
Mentioned(key, k) ==
    \E i \in DOMAIN sent : JsonKey(sent[i].adv_id) = key /\ k \in DOMAIN sent[i].sources

\* the fetched state has source k for the advertiser stored under this JSON key
Fetched(key, k) ==
    \E i \in DOMAIN current_data :
        JsonKey(current_data[i].id) = key /\ k \in DOMAIN current_data[i].sources

\* the JSON object holds exactly the fetched advertisers with their fetched sources
SameAsFetched(content, fetched) ==
    /\ DOMAIN content = {JsonKey(fetched[i].id) : i \in DOMAIN fetched}
    /\ \A i \in DOMAIN fetched :
          content[JsonKey(fetched[i].id)] =
              [name |-> fetched[i].name, sources |-> fetched[i].sources]

\* source k of advertiser i is absent from the previous snapshot's entry
NewlyFlagged(i, k) ==
    /\ k \in DOMAIN current_data[i].sources
    /\ k \notin DOMAIN SnapshotEntry(PreviousSnapshot, current_data[i].id)

\* source k of advertiser i is in the previous snapshot with another timestamp
Recurred(i, k) ==
    /\ k \in DOMAIN current_data[i].sources
    /\ k \in DOMAIN SnapshotEntry(PreviousSnapshot, current_data[i].id)
    /\ SnapshotEntry(PreviousSnapshot, current_data[i].id)[k].sync_failed_at
          # current_data[i].sources[k].sync_failed_at

\* source k of advertiser i is in the previous snapshot with the same timestamp
Unchanged(i, k) ==
    /\ k \in DOMAIN current_data[i].sources
    /\ k \in DOMAIN SnapshotEntry(PreviousSnapshot, current_data[i].id)
    /\ SnapshotEntry(PreviousSnapshot, current_data[i].id)[k].sync_failed_at
          = current_data[i].sources[k].sync_failed_at

SrcKeys == {ToString(s) : s \in SrcIds}
AdvKeys == {JsonKey(id) : id \in AdvIds}

\* ------------------------------------------------------------------------
\* C1
\* ------------------------------------------------------------------------
\* C1 as stated: in every run that completes, every fetched source that is
\* absent from the previous snapshot's entry of its advertiser is in the
\* e-mail sent for that advertiser.
C1_NewFailureAnyRun ==
    pc = "done" =>
        \A i \in DOMAIN current_data : \A k \in SrcKeys :
            NewlyFlagged(i, k) => Included(current_data[i].id, k)

\* C1 amended: in every run that completes and is not a bootstrap run (the
\* previous snapshot has at least one entry), every fetched source that is
\* absent from the previous snapshot's entry of its advertiser is in the
\* e-mail sent for that advertiser.
C1_NewFailureDetected ==
    (pc = "done" /\ ~BootstrapRun) =>
        \A i \in DOMAIN current_data : \A k \in SrcKeys :
            NewlyFlagged(i, k) => Included(current_data[i].id, k)

\* a completed run that mailed a source missing from an existing entry of its advertiser
C1_Witness ==
    /\ pc = "done"
    /\ ~BootstrapRun
    /\ \E i \in DOMAIN current_data : \E k \in SrcKeys :
          /\ NewlyFlagged(i, k)
          /\ DOMAIN SnapshotEntry(PreviousSnapshot, current_data[i].id) # {}
          /\ Included(current_data[i].id, k)

\* ------------------------------------------------------------------------
\* C2
\* ------------------------------------------------------------------------
\* C2 as stated: in every run that is not a bootstrap run, once the run has
\* ended, every source that is in the previous snapshot and in the fetch with
\* different sync_failed_at is in the e-mail sent for its advertiser.
C2_RecurrenceAnyRun ==
    (pc \in {"done", "failed"} /\ ~BootstrapRun) =>
        \A i \in DOMAIN current_data : \A k \in SrcKeys :
            Recurred(i, k) => Included(current_data[i].id, k)

\* C2 amended: in every run that is not a bootstrap run and completes, every
\* source that is in the previous snapshot and in the fetch with different
\* sync_failed_at is in the e-mail sent for its advertiser.
C2_RecurrenceDetected ==
    (pc = "done" /\ ~BootstrapRun) =>
        \A i \in DOMAIN current_data : \A k \in SrcKeys :
            Recurred(i, k) => Included(current_data[i].id, k)

\* a completed run that mailed a re-occurred source and left an unchanged one out
C2_Witness ==
    /\ pc = "done"
    /\ \E i \in DOMAIN current_data : \E k, m \in SrcKeys :
          /\ Recurred(i, k)
          /\ Included(current_data[i].id, k)
          /\ Unchanged(i, m)
          /\ ~Included(current_data[i].id, m)

\* ------------------------------------------------------------------------
\* C3
\* ------------------------------------------------------------------------
\* C3: when the fetched state is not empty and the previous snapshot is empty
\* (no file, or zero entries), the run calls send_email for nobody, and once
\* it completes the snapshot on disk is the fetched state.
C3_FirstRunSuppression ==
    (current_data # <<>> /\ BootstrapRun) =>
        /\ sent = <<>>
        /\ attempted = <<>>
        /\ pc = "done" => file.exists /\ SameAsFetched(file.content, current_data)

\* a completed run that found a snapshot file with zero entries and fetched failures
C3_Witness ==
    /\ pc = "done"
    /\ fileAtStart.exists
    /\ BootstrapRun
    /\ current_data # <<>>
    /\ file.content # <<>>

\* ------------------------------------------------------------------------
\* C4
\* ------------------------------------------------------------------------
\* C4: no e-mail of a run includes a source whose fetched sync_failed_at
\* equals the one the previous snapshot records for the same advertiser and
\* source; a run whose fetched state is the previous snapshot sends nothing.
C4_NoRenotification ==
    /\ \A i \in DOMAIN current_data : \A k \in SrcKeys :
          Unchanged(i, k) => ~Included(current_data[i].id, k)
    /\ (pc # "start" /\ SameAsFetched(PreviousSnapshot, current_data)) => sent = <<>>

\* ------------------------------------------------------------------------
\* C5
\* ------------------------------------------------------------------------
\* C5: when a run completes, a source of the previous snapshot that the fetch
\* did not return is in no e-mail of the run and not in the snapshot on disk.
C5_SilentRecovery ==
    pc = "done" =>
        \A key \in DOMAIN PreviousSnapshot : \A k \in DOMAIN PreviousSnapshot[key].sources :
            ~Fetched(key, k) =>
                /\ ~Mentioned(key, k)
                /\ ~(key \in DOMAIN file.content /\ k \in DOMAIN file.content[key].sources)

\* a completed run that sent an e-mail while another source had recovered
C5_Witness ==
    /\ pc = "done"
    /\ sent # <<>>
    /\ \E key \in DOMAIN PreviousSnapshot : \E k \in DOMAIN PreviousSnapshot[key].sources :
          /\ ~Fetched(key, k)
          /\ key \in DOMAIN file.content

\* ------------------------------------------------------------------------
\* C6
\* ------------------------------------------------------------------------
\* source k of the advertiser stored under this JSON key is flagged in the response
FlaggedInResponse(key, k) ==
    \E i \in DOMAIN data : \E s \in DOMAIN data[i].sources :
        /\ JsonKey(data[i].id) = key
        /\ ToString(s) = k
        /\ data[i].sources[s].fetching_enabled = TRUE
        /\ data[i].sources[s].sync_failed_at # None

InSnapshot(key, k) ==
    key \in DOMAIN file.content /\ k \in DOMAIN file.content[key].sources

C7_FetchFailure ==
    failedAt = "fetch" =>
        /\ pc = "failed"
        /\ sent = <<>>
        /\ attempted = <<>>
        /\ writes = 0
        /\ file = fileAtStart

\* a failed fetch in a run that started with a snapshot of failures
C7_Witness ==
    /\ failedAt = "fetch"
    /\ fileAtStart.exists
    /\ ~BootstrapRun

\* ------------------------------------------------------------------------
\* C8
\* ------------------------------------------------------------------------
\* C8: a run in which send_email failed has ended; the failed call is its
\* last call of send_email, no advertiser later in the iteration was tried,
\* and the snapshot is not written: the file is the one the run started with.
C8_SmtpFailure ==
    failedAt = "smtp" =>
        /\ pc = "failed"
        /\ idx \in DOMAIN current_data
        /\ Len(attempted) = Len(sent) + 1
        /\ attempted[Len(attempted)] = current_data[idx].id
        /\ \A j \in DOMAIN current_data : \A n \in DOMAIN attempted :
              j > idx => attempted[n] # current_data[j].id
        /\ writes = 0
        /\ file = fileAtStart

\* a failed send with a later advertiser that has a new failure to report
C8_Witness ==
    /\ failedAt = "smtp"
    /\ \E j \in DOMAIN current_data : \E k \in SrcKeys :
          j > idx /\ NewlyFlagged(j, k)

\* ------------------------------------------------------------------------
\* C9
\* ------------------------------------------------------------------------
\* the e-mails a completed run owes: one per advertiser with a source that the
\* loop finds new or changed, in the order of the fetched advertisers
RECURSIVE OwedFrom(_)
OwedFrom(i) ==
    IF i > Len(current_data) THEN <<>>
    ELSE IF DOMAIN NewSources(current_data[i].id, current_data[i], previous_data) # {}
         THEN <<current_data[i].id>> \o OwedFrom(i + 1)
         ELSE OwedFrom(i + 1)

\* C9: a run that completes leaves the fetched state as the snapshot, having
\* written it once; a run writes only as its last step, after every e-mail
\* it sends.
C9_WholesaleSave ==
    /\ pc = "done" =>
          /\ file.exists
          /\ SameAsFetched(file.content, current_data)
          /\ writes = 1
          /\ ~BootstrapRun => attempted = OwedFrom(1) /\ Len(sent) = Len(attempted)
    /\ writes > 0 => pc = "done"

\* a completed run that sent nothing, fetched nothing and emptied the snapshot
C9_Witness ==
    /\ pc = "done"
    /\ ~BootstrapRun
    /\ current_data = <<>>
    /\ sent = <<>>
    /\ file.exists
    /\ DOMAIN file.content = {}

\* ------------------------------------------------------------------------
\* C10
\* ------------------------------------------------------------------------
\* C10: of two consecutive runs that complete, the second sends no e-mail
\* for a source that both fetched with the same sync_failed_at (so over a
\* sequence of completed runs only the first can), and a bootstrap run
\* sends none.
C10_AtMostOnceAcrossRuns ==
    /\ (pc = "done" /\ prevRun.completed) =>
          \A i \in DOMAIN current_data : \A k \in DOMAIN current_data[i].sources :
              <<current_data[i].id, k, current_data[i].sources[k].sync_failed_at>>
                  \in prevRun.fetched
              => ~Included(current_data[i].id, k)
    /\ BootstrapRun => sent = <<>>

====
